---- MODULE Spec2Model ----
(***************************************************************************)
(* The automobile sales dashboard: a table loaded once (df), its recession *)
(* view (df_rec), two dropdowns (input-report, input-year) and the two     *)
(* callbacks bound to them (disable_year, display_graphs).                 *)
(*                                                                         *)
(* A row is a record whose fields are the CSV's columns.  A table is a     *)
(* sequence of rows.  A mean is kept as the pair <<sum, count>> and the    *)
(* division by 12 as the pair <<sum, 12>>, so that no rounding is assumed. *)
(***************************************************************************)
EXTENDS Integers, Sequences, FiniteSets

VARIABLES df, df_rec, report_value, entered_year, year_disabled, ret, pc

vars == <<df, df_rec, report_value, entered_year, year_disabled, ret, pc>>

----------------------------------------------------------------------------
(* Bounds of the model: the tables that are loaded. *)

MaxRows == 2

Years == {2005, 2006}

\* Vehicle_Type labels met in a CSV: two mapped keys and one unmapped label.
VehicleTypes == {"Sports", "Executivecar", "Truck"}

\* (Month, Automobile_Sales, Advertising_Expenditure, unemployment_rate)
Measures == { <<"Jan", 100, 10, 5>>, <<"Feb", 200, 20, 6>> }

Rows ==
  { [Year |-> y, Month |-> m[1], Vehicle_Type |-> v, Automobile_Sales |-> m[2],
     Advertising_Expenditure |-> m[3], unemployment_rate |-> m[4],
     Recession |-> r] :
      y \in Years, m \in Measures, v \in VehicleTypes, r \in {0, 1} }

Tables == UNION { [1..n -> Rows] : n \in 0..MaxRows }

----------------------------------------------------------------------------
(* Program constants. *)

vehicle_type_names ==
  [Supperminicar |-> "Super Mini Car",
   Mediumfamilycar |-> "Medium Family Car",
   Smallfamiliycar |-> "Small Family Car",
   Sports |-> "Sports Car",
   Executivecar |-> "Executive Car"]

\* value=2005 of the year dropdown
DefaultYear == 2005

\* the year dropdown is clearable: its value is then None
NoYear == 0

\* the divisor of the monthly average
MonthsPerYear == 12

\* the values the report dropdown can hold; it is clearable too
ReportValues == {"Yearly", "Recession", "None"}

\* what Series.map(dict) leaves for a label that is no key of the dict
NaN == "NaN"

----------------------------------------------------------------------------
(* Table operations (pandas). *)

RECURSIVE SeqSum(_)
SeqSum(s) == IF s = <<>> THEN 0 ELSE s[1] + SeqSum(Tail(s))

\* t[col] as a sequence of values
Column(t, col) == [i \in DOMAIN t |-> t[i][col]]

\* t[t[col] == v]
Where(t, col, v) == SelectSeq(t, LAMBDA r : r[col] = v)

\* the values of a column, as a set
Unique(t, col) == { t[i][col] : i \in DOMAIN t }

RECURSIVE SortedInts(_)
SortedInts(S) ==
  IF S = {} THEN <<>>
  ELSE LET m == CHOOSE x \in S : \A y \in S : x <= y
       IN  <<m>> \o SortedInts(S \ {m})

\* the labels in the order in which a sort of strings leaves them
LabelOrder ==
  <<"Executivecar", "Mediumfamilycar", "Smallfamiliycar", "Sports",
    "Supperminicar", "Truck">>

SortedLabels(S) == SelectSeq(LabelOrder, LAMBDA k : k \in S)

\* groupby(col) keys, ascending (sort=True is the default)
GroupKeys(t, col) ==
  IF col = "Vehicle_Type" THEN SortedLabels(Unique(t, col))
  ELSE SortedInts(Unique(t, col))

\* t[[col, val]].groupby(col).sum().reset_index()
GroupSum(t, col, val) ==
  LET ks == GroupKeys(t, col)
  IN  [i \in DOMAIN ks |->
         [x |-> ks[i], y |-> SeqSum(Column(Where(t, col, ks[i]), val))]]

\* a faulty variant of GroupMean: the sum of the group over the rows of the whole table
GroupMean_total(t, col, val) ==
  LET ks == GroupKeys(t, col)
  IN  [i \in DOMAIN ks |->
         [x |-> ks[i],
          y |-> <<SeqSum(Column(Where(t, col, ks[i]), val)), Len(t)>>]]

\* t[[col, val]].groupby(col).mean().reset_index()
GroupMean(t, col, val) ==
  LET ks == GroupKeys(t, col)
  IN  [i \in DOMAIN ks |->
         LET g == Where(t, col, ks[i])
         IN  [x |-> ks[i], y |-> <<SeqSum(Column(g, val)), Len(g)>>]]

\* a faulty variant of MapName: a label that is no key is kept as the display name
MapName_default(v) ==
  IF v \in DOMAIN vehicle_type_names THEN vehicle_type_names[v] ELSE v

\* Series.map(vehicle_type_names): a label that is no key becomes NaN
MapName(v) ==
  IF v \in DOMAIN vehicle_type_names THEN vehicle_type_names[v] ELSE NaN

\* table["Vehicle_Type"] = table["Vehicle_Type"].map(vehicle_type_names)
MapVehicleType(table) ==
  [i \in DOMAIN table |-> [table[i] EXCEPT !.x = MapName(table[i].x)]]

----------------------------------------------------------------------------
(* The callbacks. *)

\* a figure: the plotly express constructor that made it and its data
Figure(kind, data) == [kind |-> kind, data |-> data]

\* a faulty variant of disable_year: the test is for the other report
disable_year_inverted(value) == IF value = "Yearly" THEN TRUE ELSE FALSE

\* disable_year(report_value)
disable_year(value) == IF value = "Recession" THEN TRUE ELSE FALSE

\* px.bar(bar2_df, color="Vehicle_Type"): one trace per Vehicle_Type of the
\* table grouped by (Vehicle_Type, unemployment_rate), named by the raw label
Traces(rec) ==
  LET ks == GroupKeys(rec, "Vehicle_Type")
  IN  [i \in DOMAIN ks |->
         [name |-> ks[i], legendgroup |-> ks[i],
          data |-> GroupSum(Where(rec, "Vehicle_Type", ks[i]),
                            "unemployment_rate", "Automobile_Sales")]]

\* for_each_trace(... vehicle_type_names[t.name] ...): the subscript raises
\* KeyError for a name that is no key
RaisesKeyError(traces) ==
  \E i \in DOMAIN traces : traces[i].name \notin DOMAIN vehicle_type_names

UpdateTraces(traces) ==
  [i \in DOMAIN traces |->
     [traces[i] EXCEPT !.name = vehicle_type_names[traces[i].name],
                       !.legendgroup = vehicle_type_names[traces[i].name]]]

\* recession_graphs(), reading the global df_rec (rec); the result holds
\* what the call returns or raises and the df_rec it leaves behind
recession_graphs(rec) ==
  LET fig_line == Figure("line", GroupMean(rec, "Year", "Automobile_Sales"))
      bar_df == MapVehicleType(
                  GroupMean(rec, "Vehicle_Type", "Automobile_Sales"))
      fig_bar_1 == Figure("bar", bar_df)
      pie_df == MapVehicleType(
                  GroupSum(rec, "Vehicle_Type", "Advertising_Expenditure"))
      fig_pie == Figure("pie", pie_df)
      bar2 == Traces(rec)
  IN  IF RaisesKeyError(bar2)
      THEN [raised |-> "KeyError", figs |-> <<>>, df_rec |-> rec]
      ELSE [raised |-> "none",
            figs |-> <<fig_line, fig_bar_1, fig_pie,
                       Figure("bar", UpdateTraces(bar2))>>,
            df_rec |-> rec]

\* a faulty variant of DivideBy12: the divisor is the number of rows of the table
DivideByRows(table) ==
  [i \in DOMAIN table |-> [table[i] EXCEPT !.y = <<table[i].y, Len(table)>>]]

\* df_bar["Automobile_Sales"] = df_bar["Automobile_Sales"] / 12
DivideBy12(table) ==
  [i \in DOMAIN table |->
     [table[i] EXCEPT !.y = <<table[i].y, MonthsPerYear>>]]

\* px.line(df_year, x="Month", y="Automobile_Sales"): one point per row
MonthPoints(df_year) ==
  [i \in DOMAIN df_year |->
     [x |-> df_year[i].Month, y |-> df_year[i].Automobile_Sales]]

\* the four figures year_graphs(entered_year) builds from the global df (d)
YearFigures(d, year) ==
  LET df_year == Where(d, "Year", year)
      fig_line == Figure("line", GroupMean(d, "Year", "Automobile_Sales"))
      fig_line_2 == Figure("line", MonthPoints(df_year))
      df_bar == MapVehicleType(DivideBy12(
                  GroupSum(df_year, "Vehicle_Type", "Automobile_Sales")))
      fig_bar == Figure("bar", df_bar)
      pie_df == MapVehicleType(
                  GroupSum(df_year, "Vehicle_Type", "Advertising_Expenditure"))
      fig_pie == Figure("pie", pie_df)
  IN  <<fig_line, fig_line_2, fig_bar, fig_pie>>

\* a faulty variant of year_graphs: the display names are written into df itself
year_graphs_inplace(d, year) ==
  [raised |-> "none", figs |-> YearFigures(d, year),
   df |-> [i \in DOMAIN d |->
             [d[i] EXCEPT !.Vehicle_Type = MapName(d[i].Vehicle_Type)]]]

\* year_graphs(entered_year): what the call returns and the df it leaves
\* behind; every assignment of the function is to a table derived per call
year_graphs(d, year) ==
  [raised |-> "none", figs |-> YearFigures(d, year), df |-> d]

\* a faulty variant of display_graphs: the two branches are exchanged
display_graphs_swapped(value, year, d, rec) ==
  IF value = "Recession"
  THEN LET r == year_graphs(d, year)
       IN  [fn |-> "year_graphs", raised |-> r.raised, figs |-> r.figs,
            df |-> r.df, df_rec |-> rec]
  ELSE LET r == recession_graphs(rec)
       IN  [fn |-> "recession_graphs", raised |-> r.raised, figs |-> r.figs,
            df |-> d, df_rec |-> r.df_rec]

\* display_graphs(report_value, entered_year) over the globals df (d) and
\* df_rec (rec)
display_graphs(value, year, d, rec) ==
  IF value = "Recession"
  THEN LET r == recession_graphs(rec)
       IN  [fn |-> "recession_graphs", raised |-> r.raised, figs |-> r.figs,
            df |-> d, df_rec |-> r.df_rec]
  ELSE LET r == year_graphs(d, year)
       IN  [fn |-> "year_graphs", raised |-> r.raised, figs |-> r.figs,
            df |-> r.df, df_rec |-> rec]

\* a faulty variant of RecessionView: no row is filtered out
RecessionView_all(d) == d

\* df_rec = df[df["Recession"] == 1]
RecessionView(d) == Where(d, "Recession", 1)

\* the options of the year dropdown, sorted(df.Year.unique()), and None when
\* the dropdown is cleared
YearChoices(d) == Unique(d, "Year") \cup {NoYear}

----------------------------------------------------------------------------
(* The state machine. *)

Response(r) == [fn |-> r.fn, raised |-> r.raised, figs |-> r.figs]

\* the module is imported: the table is loaded and the layout is built
Init ==
  /\ df \in Tables
  /\ df_rec = RecessionView(df)
  /\ report_value = "Yearly"
  /\ entered_year = DefaultYear
  /\ year_disabled = TRUE
  /\ ret = [fn |-> "none", raised |-> "none", figs |-> <<>>]
  /\ pc = "layout"

\* both callbacks run for the values of the layout
RunCallbacks(value, year) ==
  LET r == display_graphs(value, year, df, df_rec)
  IN  /\ year_disabled' = disable_year(value)
      /\ ret' = Response(r)
      /\ df' = r.df
      /\ df_rec' = r.df_rec

\* the page is loaded: every callback is called once with the layout's values
InitialCall ==
  /\ pc = "layout"
  /\ pc' = "ready"
  /\ RunCallbacks(report_value, entered_year)
  /\ UNCHANGED <<report_value, entered_year>>

\* the report dropdown changes (or is cleared): disable_year and
\* display_graphs run
ChangeReport ==
  /\ pc = "ready"
  /\ \E v \in ReportValues \ {report_value} :
       /\ report_value' = v
       /\ RunCallbacks(v, entered_year)
  /\ UNCHANGED <<entered_year, pc>>

\* the year dropdown, when enabled, changes (or is cleared): display_graphs
\* runs
ChangeYear ==
  /\ pc = "ready"
  /\ ~year_disabled
  /\ \E y \in YearChoices(df) \ {entered_year} :
       /\ entered_year' = y
       /\ LET r == display_graphs(report_value, y, df, df_rec)
          IN  /\ ret' = Response(r)
              /\ df' = r.df
              /\ df_rec' = r.df_rec
  /\ UNCHANGED <<report_value, year_disabled, pc>>

Next == InitialCall \/ ChangeReport \/ ChangeYear

Spec == Init /\ [][Next]_vars

----------------------------------------------------------------------------
(* What the claims are stated with: sums and counts taken directly over    *)
(* the rows of df, by index, without any of the table operations above.    *)

RECURSIVE SumOver(_, _)
SumOver(S, col) ==
  IF S = {} THEN 0
  ELSE LET i == CHOOSE j \in S : TRUE
       IN  df[i][col] + SumOver(S \ {i}, col)

RecRows == { i \in DOMAIN df : df[i].Recession = 1 }
YearRows(y) == { i \in DOMAIN df : df[i].Year = y }
TypeRows(v) == { i \in DOMAIN df : df[i].Vehicle_Type = v }
MonthRows(m) == { i \in DOMAIN df : df[i].Month = m }

Months == { m[1] : m \in Measures }
KnownKeys == DOMAIN vehicle_type_names
DisplayNames == { vehicle_type_names[k] : k \in KnownKeys }

\* the rational q = <<numerator, denominator>> equals n / d
RatEq(q, n, d) == q[2] > 0 /\ d > 0 /\ q[1] * d = n * q[2]

Kinds(figs) == [i \in DOMAIN figs |-> figs[i].kind]
PointsAt(data, x) == { i \in DOMAIN data : data[i].x = x }
LineBarPieBar == <<"line", "bar", "pie", "bar">>
LineLineBarPie == <<"line", "line", "bar", "pie">>

\* some row of the index set carries a label that is no key of the mapping
Unmapped(S) == \E i \in S : df[i].Vehicle_Type \notin KnownKeys

\* a name shown by the response that is no display name of the mapping
BadName(data) == \E i \in DOMAIN data : data[i].x \notin DisplayNames
BadTrace(data) == \E i \in DOMAIN data : data[i].name \notin DisplayNames
MissingName(r) ==
  /\ r.figs # <<>>
  /\ IF r.fn = "recession_graphs"
     THEN \/ BadName(r.figs[2].data) \/ BadName(r.figs[3].data)
          \/ BadTrace(r.figs[4].data)
     ELSE BadName(r.figs[3].data) \/ BadName(r.figs[4].data)

----------------------------------------------------------------------------
(* C1 *)

\* C1 as stated: after display_graphs has run, for Recession the response is
\* the four figures line, bar, pie, bar and for Yearly the four figures line,
\* line, bar, pie, whatever the table and the selected year.
C1_FourCharts ==
  pc = "ready" =>
    /\ report_value = "Recession" =>
         ret.raised = "none" /\ Kinds(ret.figs) = LineBarPieBar
    /\ report_value = "Yearly" =>
         ret.raised = "none" /\ Kinds(ret.figs) = LineLineBarPie

\* C1 amended: Yearly always yields line, line, bar, pie; Recession yields
\* line, bar, pie, bar unless a Recession == 1 row carries a Vehicle_Type that
\* is no key of the mapping, and then the call raises KeyError and returns no
\* figure.
C1_FourChartsOrKeyError ==
  pc = "ready" =>
    /\ report_value = "Recession" =>
         IF Unmapped(RecRows)
         THEN ret.raised = "KeyError" /\ ret.figs = <<>>
         ELSE ret.raised = "none" /\ Kinds(ret.figs) = LineBarPieBar
    /\ report_value = "Yearly" =>
         ret.raised = "none" /\ Kinds(ret.figs) = LineLineBarPie

C1_Witness ==
  /\ pc = "ready" /\ report_value = "Recession"
  /\ ret.raised = "none" /\ Len(ret.figs) = 4
  /\ RecRows # {} /\ Unmapped(DOMAIN df \ RecRows)

----------------------------------------------------------------------------
(* C2 *)

Rows0 == { r \in Rows : r.Recession = 0 }
InsertAt(d, k, r) == SubSeq(d, 1, k - 1) \o <<r>> \o SubSeq(d, k, Len(d))
RemoveAt(d, i) == SubSeq(d, 1, i - 1) \o SubSeq(d, i + 1, Len(d))

\* the tables that differ from d by one Recession == 0 row added, removed or
\* changed
Variants(d) ==
  LET idx0 == { i \in DOMAIN d : d[i].Recession = 0 }
  IN  { InsertAt(d, k, r) : k \in 1..(Len(d) + 1), r \in Rows0 }
        \cup { RemoveAt(d, i) : i \in idx0 }
        \cup { [d EXCEPT ![i] = r] : i \in idx0, r \in Rows0 }

\* C2: what recession_graphs returned (figures, groups, values, or the error)
\* is what it returns for every table that differs from df by a
\* Recession == 0 row added, removed or changed.
C2_RecessionRowsOnly ==
  ret.fn = "recession_graphs" =>
    \A d2 \in Variants(df) :
      LET r == recession_graphs(RecessionView(d2))
      IN  r.raised = ret.raised /\ r.figs = ret.figs

C2_Witness ==
  /\ ret.fn = "recession_graphs" /\ ret.raised = "none"
  /\ RecRows # {} /\ RecRows # DOMAIN df

----------------------------------------------------------------------------
(* C3 *)

\* C3: a change of the report type to Recession leaves the year control
\* disabled and a change to Yearly leaves it enabled, whatever the flag and
\* the selected year were.
C3_DisableYear ==
  [][ report_value' # report_value =>
        /\ report_value' = "Recession" => year_disabled' = TRUE
        /\ report_value' = "Yearly" => year_disabled' = FALSE ]_vars

C3_Witness ==
  pc = "ready" /\ report_value = "Recession" /\ year_disabled = TRUE
    /\ entered_year # DefaultYear

----------------------------------------------------------------------------
(* C4 *)

\* C4: in the third figure of year_graphs every Vehicle_Type with rows in
\* the selected year has one bar, whose value is the sum of Automobile_Sales
\* over the rows of that year and type, divided by 12; a type without rows
\* in that year has none.
C4_MonthlyAverage ==
  ret.fn = "year_graphs" =>
    LET data == ret.figs[3].data
    IN  \A v \in VehicleTypes :
          LET S == YearRows(entered_year) \cap TypeRows(v)
              P == PointsAt(data, MapName(v))
          IN  IF S = {} THEN P = {}
              ELSE /\ Cardinality(P) = 1
                   /\ \A i \in P :
                        /\ data[i].y[2] = 12
                        /\ RatEq(data[i].y, SumOver(S, "Automobile_Sales"), 12)

C4_Witness ==
  /\ ret.fn = "year_graphs"
  /\ Len(ret.figs[3].data) >= 1
  /\ YearRows(entered_year) # {} /\ YearRows(entered_year) # DOMAIN df

----------------------------------------------------------------------------
(* C5 *)

Fixture ==
  << [Year |-> 2005, Month |-> "Jan", Vehicle_Type |-> "Sports",
      Automobile_Sales |-> 100, Advertising_Expenditure |-> 10,
      unemployment_rate |-> 5, Recession |-> 1],
     [Year |-> 2005, Month |-> "Feb", Vehicle_Type |-> "Sports",
      Automobile_Sales |-> 200, Advertising_Expenditure |-> 20,
      unemployment_rate |-> 6, Recession |-> 0] >>

\* data holds no point named name when S is empty, and else one point, whose
\* value is the sum of Automobile_Sales over the rows S divided by their
\* number
GroupMeanIs(data, S, name) ==
  LET P == PointsAt(data, name)
  IN  IF S = {} THEN P = {}
      ELSE /\ Cardinality(P) = 1
           /\ \A i \in P :
                RatEq(data[i].y, SumOver(S, "Automobile_Sales"),
                      Cardinality(S))

\* C5: the means of the first two figures of recession_graphs are sum over
\* count of the Recession == 1 rows of the group (by Year, by Vehicle_Type
\* under its display name); for the fixture of the example the only bar is
\* Sports Car with mean 100.
C5_RecessionMeans ==
  (ret.fn = "recession_graphs" /\ ret.raised = "none") =>
    /\ \A y \in Years :
         GroupMeanIs(ret.figs[1].data, RecRows \cap YearRows(y), y)
    /\ \A k \in KnownKeys :
         GroupMeanIs(ret.figs[2].data, RecRows \cap TypeRows(k),
                     vehicle_type_names[k])
    /\ df = Fixture =>
         /\ Len(ret.figs[2].data) = 1
         /\ ret.figs[2].data[1].x = "Sports Car"
         /\ RatEq(ret.figs[2].data[1].y, 100, 1)

C5_Witness ==
  /\ ret.fn = "recession_graphs" /\ ret.raised = "none"
  /\ df = Fixture

----------------------------------------------------------------------------
(* C6 *)

\* C6: no step changes df or df_rec.
C6_DatasetUnchanged == [][df' = df /\ df_rec' = df_rec]_vars

C6_Witness ==
  /\ pc = "ready" /\ ret.fn = "recession_graphs"
  /\ entered_year # DefaultYear
  /\ Len(df) = MaxRows /\ df_rec = RecessionView(df)

----------------------------------------------------------------------------
(* C7 *)

\* C7 as stated: in every state, the layout's included, the year control is
\* disabled exactly when the report type is Recession.
C7_DisabledIffRecession == year_disabled <=> (report_value = "Recession")

----------------------------------------------------------------------------
(* C8 *)

\* C8 as stated: the second figure of year_graphs has one point per Month
\* of the selected year, valued the sum of Automobile_Sales over the rows of
\* that year and month.
C8_MonthlyTotals ==
  ret.fn = "year_graphs" =>
    LET data == ret.figs[2].data
    IN  \A m \in Months :
          LET S == YearRows(entered_year) \cap MonthRows(m)
              P == PointsAt(data, m)
          IN  IF S = {} THEN P = {}
              ELSE /\ Cardinality(P) = 1
                   /\ \A i \in P : data[i].y = SumOver(S, "Automobile_Sales")

----------------------------------------------------------------------------
(* C9 *)

----------------------------------------------------------------------------
(* C10 *)

\* C10 as stated: the last request went to recession_graphs exactly when the
\* report type is Recession and to year_graphs exactly when it is Yearly, so
\* a cleared report type reaches neither.
C10_Dispatch ==
  pc = "ready" =>
    /\ ret.fn = "recession_graphs" <=> report_value = "Recession"
    /\ ret.fn = "year_graphs" <=> report_value = "Yearly"

====
